---- MODULE Spec2Model ----
(***************************************************************************)
(* Model of sentry/web/frontend/react_page.py: the four view classes that  *)
(* render the React application shell (ReactPageView, GenericReactPageView,*)
(* DemoReactPageView, GenericDemoReactPageView) and the mixin they share.  *)
(*                                                                         *)
(* The views keep no state between requests, so a behaviour is one request:*)
(* Init draws the request and its URL keyword arguments, and one action per*)
(* view class draws the organization argument and the behaviour of the     *)
(* collaborators the view calls, runs the whole handler and leaves in the  *)
(* variables what the call did: the collaborator calls in the order they   *)
(* were made, the signals sent, the messages enqueued, the returned        *)
(* response or the exception that left handle().                           *)
(***************************************************************************)
EXTENDS Naturals, Sequences, FiniteSets, TLC

VARIABLES
    view,             \* "pending", then the class whose handle() ran
    request,          \* the request argument: path, GET['onboarding'] list, user
    organization,     \* the organization argument (None in the generic views)
    kwargs,           \* **kwargs: a function whose domain may hold "project_id"
    fails,            \* the collaborator call that raises in this call, or "none"
    calls,            \* collaborator calls made by the handler, in order
    events,           \* first_event_pending.send(...) calls of this handler run
    messages,         \* the request's message queue (messages.add_message)
    csrf_cookie_used, \* request.META["CSRF_COOKIE_USED"], set by get_csrf_token
    context,          \* the dict get_context built (None before it is built)
    raised,           \* the exception that propagated out of handle(), or None
    ret               \* the value handle() returned, or None

vars == <<view, request, organization, kwargs, fails, calls, events, messages,
          csrf_cookie_used, context, raised, ret>>

----------------------------------------------------------------------------
(* Bounds and input domains *)

\* Largest number of times `onboarding` is repeated in the query string.
MaxParams == 2

\* Python's None.
None == [none |-> TRUE]

\* A Python str value.
Str(s) == [str |-> s]

\* A path is the sequence of its characters, one string per character.
DemoPrefix == <<"/", "s", "e", "n", "t", "r", "y", "/", "e", "a", "r", "t", "h", "/">>

\* Request paths: the demo prefix, a path under it, the prefix without its
\* trailing slash, the prefix not at the start, and an ordinary organization path.
Paths ==
    { DemoPrefix,
      DemoPrefix \o <<"o", "/">>,
      SubSeq(DemoPrefix, 1, Len(DemoPrefix) - 1),
      <<"/", "o">> \o DemoPrefix,
      <<"/", "o", "/", "p", "/">> }

ParamValues == {"", "1"}

\* The values of `onboarding` in the query string, in order of appearance.
ParamLists == UNION { [1..n -> ParamValues] : n \in 0..MaxParams }

Users == {"u1", "u2"}

Organizations == {"o1", "o2"}

Slugs == {"a", "b"}

\* The Project table. Slug "a" names a project in each organization, slug
\* "b" a project of o2 only: a lookup of "b" in o1 misses.
Projects ==
    { [id |-> 1, organization |-> "o1", slug |-> "a"],
      [id |-> 2, organization |-> "o2", slug |-> "b"],
      [id |-> 3, organization |-> "o2", slug |-> "a"] }

Requests == [path : Paths, GET : ParamLists, user : Users]

KwargsSet == { <<>> } \cup { ("project_id" :> s) : s \in Slugs }

DEMO_TEXT == "This is a DEMO. Data will not be written to database and you are logged in as dummy user. This is a Sentry playground with dummy/demo data! Feel free to mess around!"

----------------------------------------------------------------------------
(* Library behaviour the handlers rely on *)

\* str.startswith, character by character.
RECURSIVE StartsWithFrom(_, _, _)
StartsWithFrom(s, prefix, i) ==
    IF i > Len(prefix) THEN TRUE
    ELSE IF i > Len(s) THEN FALSE
    ELSE IF s[i] # prefix[i] THEN FALSE
    ELSE StartsWithFrom(s, prefix, i + 1)

startswith(s, prefix) == StartsWithFrom(s, prefix, 1)

\* QueryDict.get(key): the last value given for the key, None when absent.
GET_get(req) ==
    IF Len(req.GET) = 0 THEN None ELSE Str(req.GET[Len(req.GET)])

\* Python truth value of None or a str.
Truthy(v) == v # None /\ v.str # ""

\* The state of one run of a handler.
Start ==
    [calls |-> <<>>, events |-> <<>>, messages |-> <<>>,
     csrf_cookie_used |-> FALSE, context |-> None, raised |-> None, ret |-> None]

\* A collaborator call is logged; it raises when it is the failing one.
Called(e, name) == [e EXCEPT !.calls = Append(@, name)]

Raise(e, name) == [e EXCEPT !.raised = [exc |-> name]]

----------------------------------------------------------------------------
(* Collaborators *)

\* Project.objects.filter(organization=..., slug=...)
filter(org, slug) ==
    { p \in Projects : p.organization = org /\ p.slug = slug }

\* QuerySet.first(): the row with the smallest primary key, None when empty.
first(rows) ==
    IF rows = {} THEN None
    ELSE CHOOSE p \in rows : \A q \in rows : p.id <= q.id

\* loader.render_to_string(template_name, context)
render_to_string(template_name, ctx) ==
    [template |-> template_name, context |-> ctx]

\* HttpResponse(content): status 200 and Django's default Content-Type.
HttpResponse(content) ==
    [status_code |-> 200,
     headers |-> ("Content-Type" :> "text/html; charset=utf-8"),
     content |-> content]

\* response[name] = value
SetHeader(response, name, value) ==
    [response EXCEPT !.headers = (name :> value) @@ @]

----------------------------------------------------------------------------
(* ReactMixin *)

\* Variant: is_demo taken from the view class instead of the path.
get_context_by_view(self, req) ==
    [is_demo |-> self \in {"DemoReactPageView", "GenericDemoReactPageView"},
     request |-> req,
     CSRF_COOKIE_NAME |-> "settings.CSRF_COOKIE_NAME"]

get_context(self, req) ==
    [is_demo |-> startswith(req.path, DemoPrefix),
     request |-> req,
     CSRF_COOKIE_NAME |-> "settings.CSRF_COOKIE_NAME"]

\* Variant: the template is rendered before the token is ensured.
handle_react_render_first(self, req, f, e) ==
    LET e0 == [e EXCEPT !.context = get_context(self, req)]
        e1 == Called(e0, "render_to_string")
        template == render_to_string("sentry/bases/react.html", e0.context)
        response == SetHeader(HttpResponse(template), "Content-Type", "text/html")
    IN  IF f = "render_to_string" THEN Raise(e1, f)
        ELSE
          LET e2 == Called(e1, "get_csrf_token")
          IN  IF f = "get_csrf_token" THEN Raise(e2, f)
              ELSE [e2 EXCEPT !.csrf_cookie_used = TRUE, !.ret = response]

\* Variant: the Content-Type header is left as HttpResponse set it.
handle_react_default_content_type(self, req, f, e) ==
    LET e0 == [e EXCEPT !.context = get_context(self, req)]
        e1 == Called(e0, "get_csrf_token")
    IN  IF f = "get_csrf_token" THEN Raise(e1, f)
        ELSE
          LET e2 == Called([e1 EXCEPT !.csrf_cookie_used = TRUE], "render_to_string")
              template == render_to_string("sentry/bases/react.html", e2.context)
          IN  IF f = "render_to_string" THEN Raise(e2, f)
              ELSE [e2 EXCEPT !.ret = HttpResponse(template)]

\* handle_react continued from run state e; f is the call that raises.
handle_react(self, req, f, e) ==
    LET e0 == [e EXCEPT !.context = get_context(self, req)]
        e1 == Called(e0, "get_csrf_token")
    IN  IF f = "get_csrf_token" THEN Raise(e1, f)
        ELSE
          LET e2 == Called([e1 EXCEPT !.csrf_cookie_used = TRUE], "render_to_string")
              template == render_to_string("sentry/bases/react.html", e2.context)
              response == SetHeader(HttpResponse(template), "Content-Type", "text/html")
          IN  IF f = "render_to_string" THEN Raise(e2, f)
              ELSE [e2 EXCEPT !.ret = response]

----------------------------------------------------------------------------
(* The view classes *)

\* Variant: the parameter's presence decides, not its truth value.
onboarding_requested_if_present(req, kw) ==
    "project_id" \in DOMAIN kw /\ GET_get(req) # None

\* The condition of ReactPageView.handle's if statement.
onboarding_requested(req, kw) ==
    "project_id" \in DOMAIN kw /\ Truthy(GET_get(req))

\* Variant: the lookup ignores the organization.
lookup_project_by_slug_only(org, kw) ==
    first({ p \in Projects : p.slug = kw["project_id"] })

\* The project the signal is sent with.
lookup_project(org, kw) == first(filter(org, kw["project_id"]))

\* Variant: the signal is sent after the shell has been rendered.
ReactPageView_handle_signal_last(self, req, org, kw, f) ==
    LET r == handle_react(self, req, f, Start)
        e1 == Called(r, "filter")
        e2 == [Called(e1, "send") EXCEPT
                 !.events = Append(@, [project |-> lookup_project(org, kw),
                                       user |-> req.user,
                                       sender |-> self])]
    IN  IF r.raised # None \/ ~onboarding_requested(req, kw) THEN r
        ELSE IF f = "filter" THEN [Raise(e1, f) EXCEPT !.ret = None]
        ELSE IF f = "send" THEN [Raise(e2, f) EXCEPT !.ret = None]
        ELSE e2

\* The signal is sent with whatever the lookup returned, None included.
\* Signal.send lets a receiver's exception propagate and handle catches
\* nothing, so a raising receiver ends the call before handle_react.
ReactPageView_handle(self, req, org, kw, f) ==
    IF onboarding_requested(req, kw)
    THEN
      LET e1 == Called(Start, "filter")
          e2 == [Called(e1, "send") EXCEPT
                   !.events = Append(@, [project |-> lookup_project(org, kw),
                                         user |-> req.user,
                                         sender |-> self])]
      IN  IF f = "filter" THEN Raise(e1, f)
          ELSE IF f = "send" THEN Raise(e2, f)
          ELSE handle_react(self, req, f, e2)
    ELSE handle_react(self, req, f, Start)

GenericReactPageView_handle(self, req, kw, f) ==
    handle_react(self, req, f, Start)

\* Variant: the message is enqueued before the shell is rendered.
DemoReactPageView_handle_message_first(self, req, org, kw, f) ==
    LET e1 == [Called(Start, "add_message") EXCEPT
                 !.messages = Append(@, [level |-> "WARNING", message |-> DEMO_TEXT])]
    IN  IF f = "add_message" THEN Raise(Called(Start, "add_message"), f)
        ELSE handle_react(self, req, f, e1)

DemoReactPageView_handle(self, req, org, kw, f) ==
    LET e1 == handle_react(self, req, f, Start)
        e2 == [Called(e1, "add_message") EXCEPT
                 !.messages = Append(@, [level |-> "WARNING", message |-> DEMO_TEXT])]
    IN  IF e1.raised # None THEN e1
        ELSE IF f = "add_message" THEN Raise(Called(e1, "add_message"), f)
        ELSE e2

GenericDemoReactPageView_handle(self, req, kw, f) ==
    LET e1 == handle_react(self, req, f, Start)
    IN  e1

----------------------------------------------------------------------------
(* State machine: one request, routed to one of the four views *)

\* A request has arrived with its URL keyword arguments; no view has run.
Init ==
    /\ view = "pending"
    /\ request \in Requests
    /\ kwargs \in KwargsSet
    /\ organization = None
    /\ fails = "none"
    /\ calls = Start.calls
    /\ events = Start.events
    /\ messages = Start.messages
    /\ csrf_cookie_used = Start.csrf_cookie_used
    /\ context = Start.context
    /\ raised = Start.raised
    /\ ret = Start.ret

\* The variables after a run of self.handle that ended in run state e.
Finish(self, org, f, e) ==
    /\ view' = self
    /\ organization' = org
    /\ fails' = f
    /\ calls' = e.calls
    /\ events' = e.events
    /\ messages' = e.messages
    /\ csrf_cookie_used' = e.csrf_cookie_used
    /\ context' = e.context
    /\ raised' = e.raised
    /\ ret' = e.ret
    /\ UNCHANGED <<request, kwargs>>

ReactPageView ==
    /\ view = "pending"
    /\ \E org \in Organizations,
          f \in {"none", "filter", "send", "get_csrf_token", "render_to_string"} :
           Finish("ReactPageView", org, f,
                  ReactPageView_handle("ReactPageView", request, org, kwargs, f))

GenericReactPageView ==
    /\ view = "pending"
    /\ \E f \in {"none", "get_csrf_token", "render_to_string"} :
           Finish("GenericReactPageView", None, f,
                  GenericReactPageView_handle("GenericReactPageView", request, kwargs, f))

DemoReactPageView ==
    /\ view = "pending"
    /\ \E org \in Organizations,
          f \in {"none", "get_csrf_token", "render_to_string", "add_message"} :
           Finish("DemoReactPageView", org, f,
                  DemoReactPageView_handle("DemoReactPageView", request, org, kwargs, f))

GenericDemoReactPageView ==
    /\ view = "pending"
    /\ \E f \in {"none", "get_csrf_token", "render_to_string"} :
           Finish("GenericDemoReactPageView", None, f,
                  GenericDemoReactPageView_handle("GenericDemoReactPageView", request, kwargs, f))

Next ==
    \/ ReactPageView
    \/ GenericReactPageView
    \/ DemoReactPageView
    \/ GenericDemoReactPageView

Spec == Init /\ [][Next]_vars

----------------------------------------------------------------------------
(* Properties *)

Done == view # "pending"

\* The query string carries `onboarding` at least once.
OnboardingPresent == Len(request.GET) > 0

\* The value the view reads for `onboarding` is a non-empty string.
OnboardingValueSet ==
    /\ Len(request.GET) > 0
    /\ request.GET[Len(request.GET)] # ""

SlugSupplied == "project_id" \in DOMAIN kwargs

\* The projects of the call's organization that carry the supplied slug.
Matching ==
    { p \in Projects : p.organization = organization /\ p.slug = kwargs["project_id"] }

DemoViews == {"DemoReactPageView", "GenericDemoReactPageView"}

DemoWarnings ==
    { i \in DOMAIN messages :
        messages[i].level = "WARNING" /\ messages[i].message = DEMO_TEXT }

IsShellResponse(r) ==
    /\ r # None
    /\ r.status_code = 200
    /\ r.headers["Content-Type"] = "text/html"
    /\ r.content.template = "sentry/bases/react.html"
    /\ r.content.context.request = request

\* C1: in ReactPageView with the onboarding flag set and a project slug that
\* names no project of the organization, no first_event_pending is sent and
\* the shell response is returned (no collaborator failing).
C1_MissSendsNothing ==
    ( /\ view = "ReactPageView"
      /\ fails = "none"
      /\ SlugSupplied
      /\ OnboardingValueSet
      /\ Matching = {} )
    => (Len(events) = 0 /\ IsShellResponse(ret))

\* C2: every call that returns leaves exactly one demo warning on the request
\* in the two demo views and none in the two other views.
C2_DemoWarningCount ==
    (Done /\ raised = None)
    => Cardinality(DemoWarnings) = (IF view \in DemoViews THEN 1 ELSE 0)

\* C3: in ReactPageView with the onboarding flag set and a slug that names a
\* project of the organization, exactly one first_event_pending is sent, with
\* that project, the request's user and the view as sender.
C3_MatchSendsOne ==
    ( /\ view = "ReactPageView"
      /\ fails # "filter"
      /\ SlugSupplied
      /\ OnboardingValueSet
      /\ Matching # {} )
    => /\ Len(events) = 1
       /\ events[1].project \in Matching
       /\ events[1].user = request.user
       /\ events[1].sender = view

C3_Witness ==
    /\ view = "ReactPageView"
    /\ organization = "o2"
    /\ SlugSupplied
    /\ Len(events) = 1
    /\ events[1].project = [id |-> 3, organization |-> "o2", slug |-> "a"]

\* C4 as stated: with a slug naming a project of the organization, the signal
\* is sent exactly when `onboarding` is present in the query string, whatever
\* its value; without a slug it is never sent.
C4_PresenceDecides ==
    (view = "ReactPageView" /\ fails # "filter")
    => /\ (SlugSupplied /\ Matching # {}) => (Len(events) > 0 <=> OnboardingPresent)
       /\ ~SlugSupplied => Len(events) = 0

\* C4 amended: with a slug naming a project of the organization, the signal is
\* sent exactly when the value read for `onboarding` is a non-empty string; it
\* is not sent when the parameter is absent, when its value is empty, or when
\* no slug is supplied.
C4_ValueDecides ==
    (view = "ReactPageView" /\ fails # "filter")
    => /\ (SlugSupplied /\ Matching # {}) => (Len(events) > 0 <=> OnboardingValueSet)
       /\ ~SlugSupplied => Len(events) = 0

C4_Witness ==
    /\ view = "ReactPageView"
    /\ SlugSupplied
    /\ Matching # {}
    /\ OnboardingPresent
    /\ ~OnboardingValueSet
    /\ Len(events) = 0
    /\ ret # None

\* C5: in every view, is_demo of the context is true exactly when the request
\* path begins with the demo prefix, whichever view class built it.
C5_IsDemoFollowsPath ==
    (Done /\ context # None)
    => (context.is_demo <=>
          /\ Len(request.path) >= Len(DemoPrefix)
          /\ SubSeq(request.path, 1, Len(DemoPrefix)) = DemoPrefix)

C5_Witness ==
    \/ /\ view \in DemoViews
       /\ context # None
       /\ ~context.is_demo
    \/ /\ Done
       /\ view \notin DemoViews
       /\ context # None
       /\ context.is_demo

\* C6: in every view, each rendering of the template comes after a call of
\* get_csrf_token on the request, so a returned response was rendered with
\* the token ensured.
C6_TokenBeforeRender ==
    Done
    => /\ \A j \in DOMAIN calls :
            calls[j] = "render_to_string"
            => \E i \in 1..(j - 1) : calls[i] = "get_csrf_token"
       /\ ret # None
            => /\ csrf_cookie_used
               /\ \E j \in DOMAIN calls : calls[j] = "render_to_string"

C6_Witness ==
    /\ ret # None
    /\ \E i, j \in DOMAIN calls :
         i < j /\ calls[i] = "get_csrf_token" /\ calls[j] = "render_to_string"

\* C7: when no collaborator fails, every view returns a response with status
\* 200, Content-Type text/html and the rendered shell template as body.
C7_ShellResponse ==
    (Done /\ fails = "none") => (raised = None /\ IsShellResponse(ret))

C7_Witness ==
    /\ view = "ReactPageView"
    /\ fails = "none"
    /\ Len(events) = 1
    /\ IsShellResponse(ret)

\* C8: in ReactPageView the shell response is returned whether the signal is
\* sent successfully, fails in a receiver, or is not sent at all.
C8_SendNeverBlocksResponse ==
    (view = "ReactPageView" /\ fails \in {"none", "send"}) => IsShellResponse(ret)

\* C9: when get_csrf_token or the rendering fails, that failure leaves handle
\* unchanged, nothing is returned, and no demo warning has been enqueued.
C9_FailurePropagates ==
    (Done /\ fails \in {"get_csrf_token", "render_to_string"})
    => /\ raised = [exc |-> fails]
       /\ ret = None
       /\ messages = <<>>

C9_Witness ==
    /\ view = "DemoReactPageView"
    /\ fails = "render_to_string"
    /\ raised # None
    /\ csrf_cookie_used

\* C10: in ReactPageView the lookup and the signal come before the token and
\* the rendering; when one of these two then fails, the signal has been sent
\* all the same and no response is returned.
C10_SignalBeforeShell ==
    view = "ReactPageView"
    => /\ \A i, j \in DOMAIN calls :
            ( /\ calls[i] \in {"filter", "send"}
              /\ calls[j] \in {"get_csrf_token", "render_to_string"} )
            => i < j
       /\ ( /\ fails \in {"get_csrf_token", "render_to_string"}
            /\ SlugSupplied
            /\ OnboardingValueSet )
          => (Len(events) = 1 /\ ret = None /\ raised # None)

C10_Witness ==
    /\ view = "ReactPageView"
    /\ fails = "render_to_string"
    /\ Len(events) = 1
    /\ ret = None

====
